---- MODULE Spec2Model ----
(***************************************************************************)
(* Model of dashboard.py, the Streamlit dashboard of the NYC congestion    *)
(* pricing audit.  One render pass runs the script top to bottom: the      *)
(* sidebar, the four tabs, the footer.  The artifact directory             *)
(* outputs/visualizations holds eight images and three text reports.       *)
(*                                                                         *)
(* Bytes and characters are numbers: a file's content is a sequence of     *)
(* bytes 0..255, a text is a sequence of Unicode code points.              *)
(***************************************************************************)
EXTENDS Integers, Sequences, FiniteSets, TLC

VARIABLES
    fs,            \* path -> [kind, data]: the artifact directory
    cache,         \* image path -> entry of st.cache_data for load_image
    pc,            \* the section the render pass runs next, "done" or "crashed"
    crashedIn,     \* the section whose exception ended the pass, or "none"
    notices,       \* the st.warning / st.error notices of this pass, in order
    fslog,         \* the file system calls of this pass, in order
    plots,         \* image path -> what display_plot returned in this pass
    offered,       \* report path -> the bytes its download button carries
    texts,         \* report path -> the text the tab read in this pass
    rain_metrics,  \* the metric set of tab 4 (a function on the keys present)
    shown,         \* the three metric strings tab 4 displays
    downloaded,    \* what the user's last download click received
    readResult     \* what the last direct call of safe_read_text returned

vars == <<fs, cache, pc, crashedIn, notices, fslog, plots, offered, texts,
          rain_metrics, shown, downloaded, readResult>>

\* ------------------------------------------------------------------ paths

Images ==
    { "border_effect_yellow_taxis_fixed.png",
      "border_effect_green_taxis_fixed.png",
      "congestion_velocity_yellow_heatmap.png",
      "congestion_velocity_yellow_difference.png",
      "congestion_velocity_green_heatmap.png",
      "congestion_velocity_green_difference.png",
      "tip_crowding_monthly_charts.png",
      "tip_crowding_correlation_plots.png",
      "rain_tax_analysis_real_api.png" }

summary_path == "congestion_velocity_summary.txt"

tip_summary_path == "tip_crowding_analysis_summary.txt"

rain_report_path == "rain_tax_academic_report.txt"

\* The sidebar's list of downloadable reports, in its order.
reports == << summary_path, tip_summary_path, rain_report_path >>

Reports == { reports[i] : i \in 1..Len(reports) }

Paths == Images \cup Reports

\* -------------------------------------------------------------- sequences

RECURSIVE Concat(_)
Concat(ss) == IF ss = <<>> THEN <<>> ELSE Head(ss) \o Concat(Tail(ss))

Max(S) == CHOOSE x \in S : \A y \in S : y <= x

Min(S) == CHOOSE x \in S : \A y \in S : x <= y

RECURSIVE Pow10(_)
Pow10(n) == IF n = 0 THEN 1 ELSE 10 * Pow10(n - 1)

\* ------------------------------------------------------- the file system

Missing == [kind |-> "missing", data |-> <<>>]

Denied == [kind |-> "denied", data |-> <<>>]

File(bytes) == [kind |-> "file", data |-> bytes]

\* Path.exists(): true of anything at the path, readable or not.
Exists(f, p) == f[p].kind # "missing"

\* open(path, "w"): the file is created or truncated.
FsAfterOpenForWriting(f, p, mode) == [f EXCEPT ![p] = File(<<>>)]

\* What open(path, mode) leaves in the directory.  The program opens with
\* 'r' and "rb" only, and reading creates, truncates and removes nothing.
FsAfterOpen(f, p, mode) ==
    IF mode \in {"r", "rb"} THEN f ELSE [f EXCEPT ![p] = File(<<>>)]

\* The exception open(path, ...) raises, or "none".
OpenError(f, p) ==
    CASE f[p].kind = "missing" -> "FileNotFoundError"
      [] f[p].kind = "denied"  -> "PermissionError"
      [] OTHER                 -> "none"

\* ---------------------------------------------------------------- codecs

\* Continuation byte of a UTF-8 sequence.
IsCont(b) == b \in 128..191

\* The number of bytes of the sequence a lead byte starts, 0 for a byte that
\* starts none (0x80-0xC1 and 0xF5-0xFF).
SeqLen(b1) ==
    IF b1 < 128 THEN 1
    ELSE IF b1 \in 194..223 THEN 2
    ELSE IF b1 \in 224..239 THEN 3
    ELSE IF b1 \in 240..244 THEN 4
    ELSE 0

\* The sequence that starts at byte i is well formed: its continuation bytes
\* are there, and it is not overlong, a surrogate or beyond U+10FFFF.
WellFormedAt(b, i) ==
    LET n == SeqLen(b[i])
    IN  /\ n > 0
        /\ i + n - 1 <= Len(b)
        /\ \A k \in 1..(n - 1) : IsCont(b[i + k])
        /\ (b[i] = 224 => b[i + 1] >= 160)
        /\ (b[i] = 237 => b[i + 1] <= 159)
        /\ (b[i] = 240 => b[i + 1] >= 144)
        /\ (b[i] = 244 => b[i + 1] <= 143)
        /\ (i + n <= Len(b) => ~IsCont(b[i + n]))

\* The code point of the well-formed sequence that starts at byte i.
CodePointAt(b, i) ==
    CASE SeqLen(b[i]) = 1 -> b[i]
      [] SeqLen(b[i]) = 2 -> (b[i] - 192) * 64 + (b[i + 1] - 128)
      [] SeqLen(b[i]) = 3 -> (b[i] - 224) * 4096 + (b[i + 1] - 128) * 64
                                 + (b[i + 2] - 128)
      [] OTHER -> (b[i] - 240) * 262144 + (b[i + 1] - 128) * 4096
                      + (b[i + 2] - 128) * 64 + (b[i + 3] - 128)

\* Marks a position that gives no character.
IsChar(x) == x >= 0

\* The strict UTF-8 decoder: the bytes are well-formed sequences one after
\* the other (every byte that is no continuation byte starts one, and the
\* first byte is no continuation byte), and the text is their code points.
Utf8Decode(b) ==
    IF /\ (b # <<>> => ~IsCont(b[1]))
       /\ \A i \in 1..Len(b) : ~IsCont(b[i]) => WellFormedAt(b, i)
    THEN [ok |-> TRUE,
          text |-> SelectSeq([i \in 1..Len(b) |->
                                 IF IsCont(b[i]) THEN -1 ELSE CodePointAt(b, i)],
                             IsChar)]
    ELSE [ok |-> FALSE, text |-> <<>>]

\* Every byte is a latin-1 character: the code point is the byte.
Latin1Decode(b) == [ok |-> TRUE, text |-> b]

\* Every file decoded as latin-1, whatever encoding is asked for.
DecodeAsLatin1(encoding, b) == Latin1Decode(b)

Decode(encoding, b) ==
    IF encoding = "utf-8" THEN Utf8Decode(b) ELSE Latin1Decode(b)

\* The bytes of one code point in UTF-8.
Utf8Char(c) ==
    IF c < 128 THEN <<c>>
    ELSE IF c < 2048 THEN <<192 + (c \div 64), 128 + (c % 64)>>
    ELSE IF c < 65536
         THEN <<224 + (c \div 4096), 128 + ((c \div 64) % 64), 128 + (c % 64)>>
    ELSE <<240 + (c \div 262144), 128 + ((c \div 4096) % 64),
           128 + ((c \div 64) % 64), 128 + (c % 64)>>

\* The bytes of the text's characters one after the other (each character has
\* four places, those its bytes do not fill are left out).
Utf8Encode(text) ==
    SelectSeq([j \in 1..(4 * Len(text)) |->
                  LET bytes == Utf8Char(text[((j - 1) \div 4) + 1])
                      k     == ((j - 1) % 4) + 1
                  IN  IF k <= Len(bytes) THEN bytes[k] ELSE -1],
              IsChar)

Latin1Encode(text) == text

\* Text mode with newline=None: "\r\n" and a lone "\r" are read as "\n".
Newlines(t) ==
    SelectSeq([i \in 1..Len(t) |->
                  IF t[i] = 10 /\ i > 1 /\ t[i - 1] = 13 THEN -1
                  ELSE IF t[i] = 13 THEN 10 ELSE t[i]],
              IsChar)

\* with open(path, 'r', encoding=...) as f: f.read()
\*   exc  the exception raised ("none": the read returned), text what it returned.
ReadText(f, p, encoding) ==
    IF OpenError(f, p) # "none" THEN [exc |-> OpenError(f, p), text |-> <<>>]
    ELSE LET d == Decode(encoding, f[p].data)
         IN  IF d.ok THEN [exc |-> "none", text |-> Newlines(d.text)]
             ELSE [exc |-> "UnicodeDecodeError", text |-> <<>>]

\* -------------------------------------------------- notices and the log

\* st.warning(text about) and st.error(text about)
Warning(text, about) == [level |-> "warning", text |-> text, about |-> about]

Error(text, about) == [level |-> "error", text |-> text, about |-> about]

ExistsCall(p) == [op |-> "exists", path |-> p]

OpenCall(p) == [op |-> "open", path |-> p]

\* ------------------------------------------------------- reading reports

\* What a read hands back: the exception that left it ("none": it returned),
\* the text returned, the notices emitted, the file system calls made, and
\* the directory afterwards.
ReadOutcome(exc, text, ns, log, f) ==
    [exc |-> exc, text |-> text, notices |-> ns, log |-> log, fs |-> f]

\* safe_read_text: UTF-8 first; only a UnicodeDecodeError is caught, and
\* then latin-1 is tried, any exception of which gives "" and a warning.
safe_read_text(f, p) ==
    LET r1 == ReadText(f, p, "utf-8")
        f1 == FsAfterOpen(f, p, "r")
        r2 == ReadText(f1, p, "latin-1")
        f2 == FsAfterOpen(f1, p, "r")
    IN  IF r1.exc = "none"
        THEN ReadOutcome("none", r1.text, <<>>, <<OpenCall(p)>>, f1)
        ELSE IF r1.exc # "UnicodeDecodeError"
        THEN ReadOutcome(r1.exc, <<>>, <<>>, <<OpenCall(p)>>, f1)
        ELSE IF r2.exc = "none"
        THEN ReadOutcome("none", r2.text, <<>>, <<OpenCall(p), OpenCall(p)>>, f2)
        ELSE ReadOutcome("none", <<>>, <<Warning("Could not read file", p)>>,
                         <<OpenCall(p), OpenCall(p)>>, f2)

\* The read written out in tabs 2, 3 and 4: the text starts as "", the file
\* is opened only if it exists, and the latin-1 retry has no handler.
read_report(f, p) ==
    LET r1 == ReadText(f, p, "utf-8")
        f1 == FsAfterOpen(f, p, "r")
        r2 == ReadText(f1, p, "latin-1")
        f2 == FsAfterOpen(f1, p, "r")
    IN  IF ~Exists(f, p)
        THEN ReadOutcome("none", <<>>, <<>>, <<ExistsCall(p)>>, f)
        ELSE IF r1.exc = "none"
        THEN ReadOutcome("none", r1.text, <<>>, <<ExistsCall(p), OpenCall(p)>>, f1)
        ELSE IF r1.exc # "UnicodeDecodeError"
        THEN ReadOutcome(r1.exc, <<>>, <<>>, <<ExistsCall(p), OpenCall(p)>>, f1)
        ELSE ReadOutcome(r2.exc, r2.text, <<>>,
                         <<ExistsCall(p), OpenCall(p), OpenCall(p)>>, f2)

\* ------------------------------------------------------ regular expressions

\* "Correlation coefficient: "
LabelCorrelation ==
    <<67, 111, 114, 114, 101, 108, 97, 116, 105, 111, 110, 32, 99, 111, 101,
      102, 102, 105, 99, 105, 101, 110, 116, 58, 32>>

\* "Elasticity: "
LabelElasticity == <<69, 108, 97, 115, 116, 105, 99, 105, 116, 121, 58, 32>>

\* "Wettest month: "
LabelWettest ==
    <<87, 101, 116, 116, 101, 115, 116, 32, 109, 111, 110, 116, 104, 58, 32>>

Digits == 48..57

\* [\d.-] : a digit, "." or "-" (below U+0100 \d is 0-9)
NumChars == Digits \cup {46, 45}

\* \w below U+0100: ASCII letters, digits, "_", and the latin-1 letters and
\* numerals (str.isalnum())
WordChars ==
    Digits \cup (65..90) \cup {95} \cup (97..122)
        \cup {170, 178, 179, 181, 185, 186, 188, 189, 190}
        \cup (192..214) \cup (216..246) \cup (248..255)

\* A pattern  literal ( [class]+ ) suffix  with one group.
Pattern(lit, class, suffix) == [lit |-> lit, class |-> class, suffix |-> suffix]

\* r'Correlation coefficient: ([\d.-]+)'
CorrPattern == Pattern(LabelCorrelation, NumChars, <<>>)

\* r'Elasticity: ([\d.-]+)%'
ElasticPattern == Pattern(LabelElasticity, NumChars, <<37>>)

\* r'Wettest month: (\w+)'
MonthPattern == Pattern(LabelWettest, WordChars, <<>>)

\* lit stands in text at position i.
StartsWith(text, i, lit) ==
    /\ i + Len(lit) - 1 <= Len(text)
    /\ \A k \in 1..Len(lit) : text[i + k - 1] = lit[k]

\* One past the longest run of class characters that starts at i.
RunEnd(text, i, class) ==
    Min({j \in i..(Len(text) + 1) : j = Len(text) + 1 \/ text[j] \notin class})

\* The ends (one past) the group may take when the pattern is tried at i: at
\* least one class character, then the suffix.
GroupEnds(pat, text, i) ==
    IF ~StartsWith(text, i, pat.lit) THEN {}
    ELSE LET s == i + Len(pat.lit)
         IN  {e \in (s + 1)..RunEnd(text, s, pat.class) :
                 StartsWith(text, e, pat.suffix)}

\* The rightmost position with a match.
MatchStartLast(pat, text) ==
    Max({i \in 1..Len(text) : GroupEnds(pat, text, i) # {}})

\* Where re.search finds its match: the leftmost position with one.
MatchStart(pat, text) ==
    Min({i \in 1..Len(text) : GroupEnds(pat, text, i) # {}})

\* re.search(pattern, text): whether it matched and group(1), the greedy
\* group of the leftmost match.
re_search(pat, text) ==
    IF \A i \in 1..Len(text) : GroupEnds(pat, text, i) = {}
    THEN [matched |-> FALSE, group |-> <<>>]
    ELSE LET i == MatchStart(pat, text)
             s == i + Len(pat.lit)
         IN  [matched |-> TRUE,
              group |-> SubSeq(text, s, Max(GroupEnds(pat, text, i)) - 1)]

\* ---------------------------------------------------------------- numbers

\* A number is  (-1)^neg * mant / 10^exp  with no trailing zero in the
\* fraction, so that equal numbers are equal records (-0.0 keeps its sign, as
\* a float does).
RECURSIVE Number(_, _, _)
Number(neg, mant, exp) ==
    IF exp > 0 /\ mant % 10 = 0 THEN Number(neg, mant \div 10, exp - 1)
    ELSE [neg |-> neg, mant |-> mant, exp |-> exp]

\* The value of a string of decimal digits.
RECURSIVE DigitsValue(_)
DigitsValue(ds) ==
    IF ds = <<>> THEN 0
    ELSE 10 * DigitsValue(SubSeq(ds, 1, Len(ds) - 1)) + (ds[Len(ds)] - 48)

\* The string without its leading "-".
Unsigned(str) == IF str # <<>> /\ str[1] = 45 THEN Tail(str) ELSE str

\* What float() accepts of a string of digits, "." and "-": an optional
\* leading "-", then digits with at most one ".", one digit at least.
FloatAccepts(str) ==
    LET body == Unsigned(str)
    IN  /\ \A k \in 1..Len(body) : body[k] \in Digits \cup {46}
        /\ Cardinality({k \in 1..Len(body) : body[k] = 46}) <= 1
        /\ \E k \in 1..Len(body) : body[k] \in Digits

\* float(str) with the sign dropped.
FloatValueUnsigned(str) ==
    LET body == Unsigned(str)
        dots == {k \in 1..Len(body) : body[k] = 46}
        dot  == IF dots = {} THEN Len(body) + 1 ELSE Min(dots)
        ds   == SubSeq(body, 1, dot - 1) \o SubSeq(body, dot + 1, Len(body))
    IN  Number(FALSE, DigitsValue(ds), IF dots = {} THEN 0 ELSE Len(body) - dot)

\* float(str) of an accepted string.
FloatValue(str) ==
    LET body == Unsigned(str)
        dots == {k \in 1..Len(body) : body[k] = 46}
        dot  == IF dots = {} THEN Len(body) + 1 ELSE Min(dots)
        ds   == SubSeq(body, 1, dot - 1) \o SubSeq(body, dot + 1, Len(body))
    IN  Number(str # <<>> /\ str[1] = 45, DigitsValue(ds),
               IF dots = {} THEN 0 ELSE Len(body) - dot)

\* float(str): the number, or the ValueError.
float(str) ==
    IF FloatAccepts(str) THEN [exc |-> "none", value |-> FloatValue(str)]
    ELSE [exc |-> "ValueError", value |-> Number(FALSE, 0, 0)]

\* The decimal digits of a natural number.
RECURSIVE NatString(_)
NatString(n) ==
    IF n < 10 THEN <<48 + n>> ELSE Append(NatString(n \div 10), 48 + (n % 10))

\* n as a string of exactly w digits (n < 10^w).
RECURSIVE Padded(_, _)
Padded(n, w) == IF w = 0 THEN <<>> ELSE Append(Padded(n \div 10, w - 1), 48 + (n % 10))

\* f"{x:.<places>f}": x rounded to places decimals, to the nearest.  A decimal
\* tie goes to the even digit here; for a float the binary value next to the
\* decimal decides it, and no value of ValueTexts is such a tie.
FormatFixed(x, places) ==
    LET scaled == IF x.exp <= places THEN x.mant * Pow10(places - x.exp)
                  ELSE LET unit == Pow10(x.exp - places)
                           q    == x.mant \div unit
                           r    == x.mant % unit
                       IN  IF 2 * r > unit \/ (2 * r = unit /\ q % 2 = 1)
                           THEN q + 1 ELSE q
    IN  (IF x.neg THEN <<45>> ELSE <<>>)
            \o NatString(scaled \div Pow10(places))
            \o (IF places = 0 THEN <<>>
                ELSE <<46>> \o Padded(scaled % Pow10(places), places))

\* ------------------------------------------------------ tab 4: the metrics

\* 0.041, the default of rain_metrics.get('correlation', 0.041)
DefaultCorrelation == Number(FALSE, 41, 3)

\* -0.40, the default of rain_metrics.get('elasticity', -0.40)
DefaultElasticity == Number(TRUE, 40, 2)

\* 'May 2025', the default of rain_metrics.get('wettest_month', 'May 2025')
DefaultMonth == <<77, 97, 121, 32, 50, 48, 50, 53>>

\* d with d[key] = value, as the assignment d[key] = value leaves it.
Put(d, key, value) ==
    [k \in DOMAIN d \cup {key} |-> IF k = key THEN value ELSE d[k]]

\* d.get(key, default)
Get(d, key, default) == IF key \in DOMAIN d THEN d[key] ELSE default

\* The empty dict.
EmptyDict == [k \in {} |-> 0]

\* Lines 520-535.  The three searches run in order over the whole text, a
\* ValueError of float() leaves the block at once with the keys set so far.
\*   exc  "none" or "ValueError";  metrics  rain_metrics when the block is left.
extract_metrics(rain_report) ==
    LET corr_match    == re_search(CorrPattern, rain_report)
        elastic_match == re_search(ElasticPattern, rain_report)
        month_match   == re_search(MonthPattern, rain_report)
        corr          == float(corr_match.group)
        elastic       == float(elastic_match.group)
        m1 == IF corr_match.matched
              THEN Put(EmptyDict, "correlation", corr.value) ELSE EmptyDict
        m2 == IF elastic_match.matched
              THEN Put(m1, "elasticity", elastic.value) ELSE m1
        m3 == IF month_match.matched
              THEN Put(m2, "wettest_month", month_match.group) ELSE m2
    IN  IF rain_report = <<>> THEN [exc |-> "none", metrics |-> EmptyDict]
        ELSE IF corr_match.matched /\ corr.exc # "none"
        THEN [exc |-> corr.exc, metrics |-> EmptyDict]
        ELSE IF elastic_match.matched /\ elastic.exc # "none"
        THEN [exc |-> elastic.exc, metrics |-> m1]
        ELSE [exc |-> "none", metrics |-> m3]

\* Lines 540-549: the three values handed to st.metric.
display_metrics(metrics) ==
    [correlation   |-> FormatFixed(Get(metrics, "correlation", DefaultCorrelation), 3),
     elasticity    |-> FormatFixed(Get(metrics, "elasticity", DefaultElasticity), 2)
                           \o <<37>>,
     wettest_month |-> Get(metrics, "wettest_month", DefaultMonth)]

\* ------------------------------------------------------------------ images

\* The eight bytes every PNG file starts with.
PngSignature == <<137, 80, 78, 71, 13, 10, 26, 10>>

Png == File(PngSignature)

\* A file that is no image.  (A file with the signature of a PNG and damaged
\* data after it is not among the files of the model.)
Corrupt == File(<<0>>)

\* Image.open(path): the Image, or the exception it raises.
ImageOpen(f, p) ==
    IF OpenError(f, p) # "none" THEN [exc |-> OpenError(f, p), img |-> "None"]
    ELSE IF StartsWith(f[p].data, 1, PngSignature)
         THEN [exc |-> "none", img |-> "Image"]
         ELSE [exc |-> "UnidentifiedImageError", img |-> "None"]

\* An entry of st.cache_data: the value load_image returned for the path and
\* the notices it emitted, which a cache hit replays.
NoEntry == [hit |-> FALSE, img |-> "None", notices |-> <<>>]

Entry(img, ns) == [hit |-> TRUE, img |-> img, notices |-> ns]

\* load_image without its exists() test: the open of a missing file raises
\* and the handler warns.
load_image_unchecked(f, p) ==
    LET o == ImageOpen(f, p)
    IN  IF o.exc = "none"
        THEN [img |-> o.img, notices |-> <<>>,
              log |-> <<OpenCall(p)>>, fs |-> FsAfterOpen(f, p, "rb")]
        ELSE [img |-> "None", notices |-> <<Warning("Error loading image", p)>>,
              log |-> <<OpenCall(p)>>, fs |-> FsAfterOpen(f, p, "rb")]

\* The body of load_image, run on a cache miss.
load_image_body(f, p) ==
    LET o == ImageOpen(f, p)
    IN  IF ~Exists(f, p)
        THEN [img |-> "None", notices |-> <<Warning("Image not found", p)>>,
              log |-> <<ExistsCall(p)>>, fs |-> f]
        ELSE IF o.exc = "none"
        THEN [img |-> o.img, notices |-> <<>>,
              log |-> <<ExistsCall(p), OpenCall(p)>>, fs |-> FsAfterOpen(f, p, "rb")]
        ELSE [img |-> "None", notices |-> <<Warning("Error loading image", p)>>,
              log |-> <<ExistsCall(p), OpenCall(p)>>, fs |-> FsAfterOpen(f, p, "rb")]

\* @st.cache_data load_image: a hit returns the stored value and replays the
\* stored notices without running the body; a miss runs it and stores both.
load_image(f, c, p) ==
    IF c[p].hit
    THEN [img |-> c[p].img, notices |-> c[p].notices, log |-> <<>>, fs |-> f,
          cache |-> c]
    ELSE LET b == load_image_body(f, p)
         IN  [img |-> b.img, notices |-> b.notices, log |-> b.log, fs |-> b.fs,
              cache |-> [c EXCEPT ![p] = Entry(b.img, b.notices)]]

\* display_plot with st.warning in the place of st.error.
display_plot_warns(img, p) ==
    IF img = "Image" THEN <<>> ELSE <<Warning("Could not load", p)>>

\* What display_plot emits after load_image, by what it got.
display_plot_notices(img, p) ==
    IF img = "Image" THEN <<>> ELSE <<Error("Could not load", p)>>

\* The pass so far: the directory, the cache, the notices, the file system
\* calls and what display_plot returned per image.
Ctx(f, c, ns, log, pl) ==
    [fs |-> f, cache |-> c, notices |-> ns, fslog |-> log, plots |-> pl]

\* display_plot(image_path, ...): returns True with the image shown, False
\* after st.error otherwise.
display_plot(ctx, p) ==
    LET l == load_image(ctx.fs, ctx.cache, p)
    IN  Ctx(l.fs, l.cache,
            ctx.notices \o l.notices \o display_plot_notices(l.img, p),
            ctx.fslog \o l.log,
            [ctx.plots EXCEPT ![p] = IF l.img = "Image" THEN "True" ELSE "False"])

RECURSIVE display_plots(_, _)
display_plots(ctx, ps) ==
    IF ps = <<>> THEN ctx ELSE display_plots(display_plot(ctx, Head(ps)), Tail(ps))

Here == Ctx(fs, cache, notices, fslog, plots)

\* ----------------------------------------------------------- the sidebar

NoButton == [on |-> FALSE, data |-> <<>>]

\* Lines 196-217 from report i on: a report that exists gets a download
\* button carrying its bytes (create_download_button checks again and opens
\* "rb"), a missing one a warning.  acc: exc, notices, log, offered, fs.
RECURSIVE download_buttons(_, _)
download_buttons(i, acc) ==
    IF i > Len(reports) \/ acc.exc # "none" THEN acc
    ELSE LET p == reports[i]
         IN  IF ~Exists(acc.fs, p)
             THEN download_buttons(i + 1,
                      [acc EXCEPT !.notices = Append(@, Warning("Report not found", p)),
                                  !.log = Append(@, ExistsCall(p))])
             ELSE IF OpenError(acc.fs, p) # "none"
             THEN [acc EXCEPT !.exc = OpenError(acc.fs, p),
                              !.log = @ \o <<ExistsCall(p), ExistsCall(p), OpenCall(p)>>,
                              !.fs = FsAfterOpen(@, p, "rb")]
             ELSE download_buttons(i + 1,
                      [acc EXCEPT !.log = @ \o <<ExistsCall(p), ExistsCall(p), OpenCall(p)>>,
                                  !.offered = [@ EXCEPT ![p] =
                                                  [on |-> TRUE, data |-> acc.fs[p].data]],
                                  !.fs = FsAfterOpen(@, p, "rb")])

\* -------------------------------------------------------- the render pass

NothingShown == [correlation |-> <<>>, elasticity |-> <<>>, wettest_month |-> <<>>]

NoDownload == [on |-> FALSE, name |-> "", data |-> <<>>]

NoRead == [called |-> FALSE, path |-> "", exc |-> "none", text |-> <<>>,
           notices |-> <<>>, log |-> <<>>]

\* The script starts at its first line with nothing rendered; the directory,
\* the process-wide cache and what the user has saved stay as they are.
StartPass ==
    /\ pc' = "sidebar"
    /\ crashedIn' = "none"
    /\ notices' = <<>>
    /\ fslog' = <<>>
    /\ plots' = [p \in Images |-> "unset"]
    /\ offered' = [p \in Reports |-> NoButton]
    /\ texts' = [p \in Reports |-> <<>>]
    /\ rain_metrics' = EmptyDict
    /\ shown' = NothingShown
    /\ UNCHANGED <<fs, cache, readResult>>

\* The section ran to its end with the pass as ctx; next runs section next.
Continue(ctx, next) ==
    /\ pc' = next
    /\ fs' = ctx.fs
    /\ cache' = ctx.cache
    /\ notices' = ctx.notices
    /\ fslog' = ctx.fslog
    /\ plots' = ctx.plots
    /\ UNCHANGED crashedIn

\* An exception left the section: Streamlit shows it and the script stops.
Crash(ctx, section) ==
    /\ pc' = "crashed"
    /\ crashedIn' = section
    /\ fs' = ctx.fs
    /\ cache' = ctx.cache
    /\ notices' = ctx.notices
    /\ fslog' = ctx.fslog
    /\ plots' = ctx.plots

\* ctx after a report read r.
AfterRead(ctx, r) ==
    Ctx(r.fs, ctx.cache, ctx.notices \o r.notices, ctx.fslog \o r.log, ctx.plots)

\* Lines 158-217: the sidebar with the download buttons.
Sidebar ==
    /\ pc = "sidebar"
    /\ LET b == download_buttons(1, [exc |-> "none", notices |-> notices,
                                     log |-> fslog, offered |-> offered, fs |-> fs])
           ctx == Ctx(b.fs, cache, b.notices, b.log, plots)
       IN  /\ offered' = b.offered
           /\ IF b.exc = "none" THEN Continue(ctx, "tab1") ELSE Crash(ctx, "sidebar")
    /\ UNCHANGED <<texts, rain_metrics, shown, downloaded, readResult>>

\* Lines 228-302: the two border effect maps.
Tab1 ==
    /\ pc = "tab1"
    /\ Continue(display_plots(Here, <<"border_effect_yellow_taxis_fixed.png",
                                      "border_effect_green_taxis_fixed.png">>), "tab2")
    /\ UNCHANGED <<offered, texts, rain_metrics, shown, downloaded, readResult>>

\* Lines 305-403: the velocity summary is read, then the four heatmaps.
Tab2 ==
    /\ pc = "tab2"
    /\ LET r == read_report(fs, summary_path)
           ctx == AfterRead(Here, r)
       IN  /\ texts' = [texts EXCEPT ![summary_path] = r.text]
           /\ IF r.exc # "none" THEN Crash(ctx, "tab2")
              ELSE Continue(display_plots(ctx,
                       <<"congestion_velocity_yellow_heatmap.png",
                         "congestion_velocity_yellow_difference.png",
                         "congestion_velocity_green_heatmap.png",
                         "congestion_velocity_green_difference.png">>), "tab3")
    /\ UNCHANGED <<offered, rain_metrics, shown, downloaded, readResult>>

\* Lines 406-485: the two tip charts, then the tip summary is read.
Tab3 ==
    /\ pc = "tab3"
    /\ LET ctx == display_plots(Here, <<"tip_crowding_monthly_charts.png",
                                        "tip_crowding_correlation_plots.png">>)
           r == read_report(ctx.fs, tip_summary_path)
       IN  /\ texts' = [texts EXCEPT ![tip_summary_path] = r.text]
           /\ IF r.exc # "none" THEN Crash(AfterRead(ctx, r), "tab3")
              ELSE Continue(AfterRead(ctx, r), "tab4")
    /\ UNCHANGED <<offered, rain_metrics, shown, downloaded, readResult>>

\* Lines 488-605: the rain plot, the rain report is read, the metrics are
\* extracted from it and displayed.
Tab4 ==
    /\ pc = "tab4"
    /\ LET ctx == display_plot(Here, "rain_tax_analysis_real_api.png")
           r == read_report(ctx.fs, rain_report_path)
           x == extract_metrics(r.text)
       IN  /\ texts' = [texts EXCEPT ![rain_report_path] = r.text]
           /\ IF r.exc # "none"
              THEN /\ Crash(AfterRead(ctx, r), "tab4")
                   /\ UNCHANGED <<rain_metrics, shown>>
              ELSE /\ rain_metrics' = x.metrics
                   /\ IF x.exc # "none"
                      THEN /\ Crash(AfterRead(ctx, r), "tab4")
                           /\ UNCHANGED shown
                      ELSE /\ Continue(AfterRead(ctx, r), "footer")
                           /\ shown' = display_metrics(x.metrics)
    /\ UNCHANGED <<offered, downloaded, readResult>>

\* Lines 608-642: the footer, the refresh button, the deployment notes.
Footer ==
    /\ pc = "footer"
    /\ pc' = "done"
    /\ UNCHANGED <<fs, cache, crashedIn, notices, fslog, plots, offered, texts,
                   rain_metrics, shown, downloaded, readResult>>

\* Lines 619-620: the refresh button was pressed, st.rerun() restarts the
\* script.  The button is there once the pass has reached it.
Refresh ==
    /\ pc = "done"
    /\ StartPass
    /\ UNCHANGED downloaded

\* A download button was pressed: the browser gets the bytes the button
\* carries, and Streamlit reruns the script.
Download(p) ==
    /\ pc = "done"
    /\ offered[p].on
    /\ downloaded' = [on |-> TRUE, name |-> p, data |-> offered[p].data]
    /\ StartPass

\* The page is loaded again after a pass that an exception ended.
Reload ==
    /\ pc = "crashed"
    /\ StartPass
    /\ UNCHANGED downloaded

\* A direct call of safe_read_text(path), which no line of the script makes:
\* the function is applied to a path of the directory as a caller would.
CallSafeReadText(p) ==
    /\ LET r == safe_read_text(fs, p)
       IN  /\ readResult' = [called |-> TRUE, path |-> p, exc |-> r.exc,
                             text |-> r.text, notices |-> r.notices, log |-> r.log]
           /\ fs' = r.fs
    /\ UNCHANGED <<cache, pc, crashedIn, notices, fslog, plots, offered, texts,
                   rain_metrics, shown, downloaded>>

\* ----------------------------------------------------- bounds and inputs

\* The longest report text, in lines, the directory is started with.
MaxLines == 2

\* The longest file content, in bytes, safe_read_text is applied to.
MaxBytes == 3

\* The numeric values a report line carries:
\* "0.041", "-0.40", "1.2.3", "-", "0.041.", "--5", "N/A"
ValueTexts ==
    { <<48, 46, 48, 52, 49>>, <<45, 48, 46, 52, 48>>, <<49, 46, 50, 46, 51>>,
      <<45>>, <<48, 46, 48, 52, 49, 46>>, <<45, 45, 53>>, <<78, 47, 65>> }

\* The lines a report is made of: each label with each value ("%" after an
\* elasticity), an elasticity without its "%", two months ("May" and
\* "June 2025") and a line with no label ("Summary of findings").
ReportLines ==
    { LabelCorrelation \o v \o <<10>> : v \in ValueTexts }
        \cup { LabelElasticity \o v \o <<37, 10>> : v \in ValueTexts }
        \cup { LabelElasticity \o <<45, 48, 46, 52, 48, 10>>,
               LabelWettest \o <<77, 97, 121, 10>>,
               LabelWettest \o <<74, 117, 110, 101, 32, 50, 48, 50, 53, 10>>,
               <<83, 117, 109, 109, 97, 114, 121, 32, 111, 102, 32, 102, 105,
                 110, 100, 105, 110, 103, 115, 10>> }

\* The report texts of at most MaxLines lines.
ReportTexts ==
    { Concat(ls) : ls \in UNION { [1..n -> ReportLines] : n \in 0..MaxLines } }

\* "Correlation coefficient: 0.041\nElasticity: -0.40%\nWettest month: May\n"
EndToEndReport ==
    LabelCorrelation \o <<48, 46, 48, 52, 49, 10>>
        \o LabelElasticity \o <<45, 48, 46, 52, 48, 37, 10>>
        \o LabelWettest \o <<77, 97, 121, 10>>

\* "Average speed rose.\n"
PlainReport ==
    File(<<65, 118, 101, 114, 97, 103, 101, 32, 115, 112, 101, 101, 100, 32,
           114, 111, 115, 101, 46, 10>>)

\* Report files as the pipeline may leave them: absent, unreadable, empty,
\* ASCII, UTF-8 with non-ASCII characters and "\r\n", and latin-1 bytes that
\* are no UTF-8 ("Tips: caf\xe9\n").
ReportSamples ==
    { Missing, Denied, File(<<>>), PlainReport,
      File(<<84, 105, 112, 115, 58, 32, 99, 97, 102, 195, 169, 32, 226, 128,
             148, 32, 49, 50, 37, 13, 10>>),
      File(<<84, 105, 112, 115, 58, 32, 99, 97, 102, 233, 10>>) }

\* Rain reports: the samples, the end-to-end report, a report with a
\* malformed value ("Correlation coefficient: 1.2.3\n") and a latin-1 report
\* ("\xe9t\xe9\nElasticity: -0.40%\n").
RainSamples ==
    ReportSamples
        \cup { File(EndToEndReport),
               File(LabelCorrelation \o <<49, 46, 50, 46, 51, 10>>),
               File(<<233, 116, 233, 10>> \o LabelElasticity
                        \o <<45, 48, 46, 52, 48, 37, 10>>) }

\* The bytes file contents are drawn from: "A", "\n", "\r", the two bytes of
\* "\xc3\xa9" (e acute in UTF-8) and 0xFF, which no UTF-8 text holds.
ByteAlphabet == {65, 10, 13, 195, 169, 255}

ByteStrings == UNION { [1..n -> ByteAlphabet] : n \in 0..MaxBytes }

\* The directories a pass is started on.
\*  - any subset of the images missing, the reports as they should be;
\*  - one image unreadable or no image;
\*  - every combination of the report samples;
\*  - every report text of at most MaxLines lines as the rain report.
Directories ==
    { [p \in Paths |->
          IF p \in Images THEN imgs[p]
          ELSE IF p = rain_report_path THEN File(EndToEndReport) ELSE PlainReport]
      : imgs \in [Images -> {Missing, Png}] }
    \cup
    { [p \in Paths |->
          IF p = q THEN bad
          ELSE IF p \in Images THEN Png
          ELSE IF p = rain_report_path THEN File(EndToEndReport) ELSE PlainReport]
      : q \in Images, bad \in {Corrupt, Denied} }
    \cup
    { [p \in Paths |->
          IF p \in Images THEN Png
          ELSE IF p = summary_path THEN a
          ELSE IF p = tip_summary_path THEN b ELSE c]
      : a \in ReportSamples, b \in ReportSamples, c \in RainSamples }
    \cup
    { [p \in Paths |->
          IF p \in Images THEN Png
          ELSE IF p = rain_report_path THEN File(Utf8Encode(text)) ELSE Missing]
      : text \in ReportTexts }

\* The directories safe_read_text is applied to: one report with any content
\* of at most MaxBytes bytes, absent or unreadable.
ReadDirectories ==
    { [p \in Paths |-> IF p = summary_path THEN f ELSE Missing]
      : f \in {Missing, Denied} \cup { File(b) : b \in ByteStrings } }

\* ------------------------------------------------------- specifications

\* The process has started and the first page load begins a pass: nothing
\* is cached, rendered or downloaded.
Fresh ==
    /\ cache = [p \in Images |-> NoEntry]
    /\ pc = "sidebar"
    /\ crashedIn = "none"
    /\ notices = <<>>
    /\ fslog = <<>>
    /\ plots = [p \in Images |-> "unset"]
    /\ offered = [p \in Reports |-> NoButton]
    /\ texts = [p \in Reports |-> <<>>]
    /\ rain_metrics = EmptyDict
    /\ shown = NothingShown
    /\ downloaded = NoDownload
    /\ readResult = NoRead

Init == fs \in Directories /\ Fresh

Next ==
    \/ Sidebar
    \/ Tab1
    \/ Tab2
    \/ Tab3
    \/ Tab4
    \/ Footer
    \/ Refresh
    \/ Reload
    \/ \E p \in Reports : Download(p)

Spec == Init /\ [][Next]_vars

InitRead == fs \in ReadDirectories /\ Fresh

NextRead == \E p \in Reports : CallSafeReadText(p)

SpecRead == InitRead /\ [][NextRead]_vars

\* ------------------------------------- the directory changing under the app

\* The images the analysis pipeline writes again while the dashboard is up:
\* the two border-effect maps of tab 1.
RegeneratedImages ==
    {"border_effect_yellow_taxis_fixed.png", "border_effect_green_taxis_fixed.png"}

\* Between two passes the pipeline writes an image that was not there.
ImageAppears(p) ==
    /\ pc \in {"done", "crashed"}
    /\ fs[p] = Missing
    /\ fs' = [fs EXCEPT ![p] = Png]
    /\ UNCHANGED <<cache, pc, crashedIn, notices, fslog, plots, offered, texts,
                   rain_metrics, shown, downloaded, readResult>>

\* Between two passes an image is deleted.
ImageDisappears(p) ==
    /\ pc \in {"done", "crashed"}
    /\ fs[p] = Png
    /\ fs' = [fs EXCEPT ![p] = Missing]
    /\ UNCHANGED <<cache, pc, crashedIn, notices, fslog, plots, offered, texts,
                   rain_metrics, shown, downloaded, readResult>>

\* The directories the app is started on when the pipeline is still at work:
\* each regenerated image there or not yet, the other artifacts in place, the
\* rain report well formed or with a malformed value
\* ("Correlation coefficient: 1.2.3\n").
EnvDirectories ==
    { [p \in Paths |->
          IF p \in RegeneratedImages THEN imgs[p]
          ELSE IF p \in Images THEN Png
          ELSE IF p = rain_report_path THEN rain ELSE PlainReport]
      : imgs \in [RegeneratedImages -> {Missing, Png}],
        rain \in { File(EndToEndReport),
                   File(LabelCorrelation \o <<49, 46, 50, 46, 51, 10>>) } }

InitEnv == fs \in EnvDirectories /\ Fresh

NextEnv ==
    \/ Sidebar
    \/ Tab1
    \/ Tab2
    \/ Tab3
    \/ Tab4
    \/ Footer
    \/ Refresh
    \/ Reload
    \/ \E p \in Reports : Download(p)
    \/ \E p \in RegeneratedImages : ImageAppears(p)
    \/ \E p \in RegeneratedImages : ImageDisappears(p)

SpecEnv == InitEnv /\ [][NextEnv]_vars

\* ================================================================ claims

\* The sections of a pass in the order the script runs them.
SectionOrder == <<"sidebar", "tab1", "tab2", "tab3", "tab4", "footer", "done">>

Position(section) == CHOOSE k \in 1..Len(SectionOrder) : SectionOrder[k] = section

\* The pass ran the section to its end.
Passed(section) == pc # "crashed" /\ Position(pc) > Position(section)

\* The pass ran the section, to its end or to the exception that left it.
Ran(section) == Passed(section) \/ (pc = "crashed" /\ crashedIn = section)

\* The text stands in the text as a line of its own.
HasLineAt(text, i, line) ==
    /\ StartsWith(text, i, line)
    /\ (i = 1 \/ text[i - 1] = 10)
    /\ (i + Len(line) > Len(text) \/ text[i + Len(line)] = 10)

\* "Correlation coefficient: 0.041"
CorrelationLine == LabelCorrelation \o <<48, 46, 48, 52, 49>>

\* The label is followed, at i, by a character a number is made of.
LabelledNumberAt(text, i, label) ==
    /\ StartsWith(text, i, label)
    /\ i + Len(label) <= Len(text)
    /\ text[i + Len(label)] \in (48..57) \cup {45, 46}

\* The text of the rain report as tab 4 read it.
RainText == texts[rain_report_path]

\* No artifact is unreadable: each is absent or a file that opens.
NoneDenied == \A p \in Paths : fs[p].kind # "denied"

\* C1: no error terminates the render pass: whatever artifacts are missing,
\* not UTF-8 or carry malformed values, the pass does not end in an exception.
C1_NoErrorTerminatesPass == NoneDenied => pc # "crashed"

\* C2: a labelled value that is no float is treated as absent: tab 4 does not
\* raise, the key is missing, and the other metrics are extracted.
C2_ParseFailureIsAbsence ==
    (Ran("tab4") /\ fs[rain_report_path].kind = "file") =>
        LET c == re_search(CorrPattern, RainText)
            e == re_search(ElasticPattern, RainText)
            m == re_search(MonthPattern, RainText)
        IN  /\ pc # "crashed"
            /\ ("correlation" \in DOMAIN rain_metrics)
                   = (c.matched /\ FloatAccepts(c.group))
            /\ ("elasticity" \in DOMAIN rain_metrics)
                   = (e.matched /\ FloatAccepts(e.group))
            /\ ("wettest_month" \in DOMAIN rain_metrics) = m.matched

\* 0.041 and -0.40 as numbers, "May" as text.
Number0041 == [neg |-> FALSE, mant |-> 41, exp |-> 3]

NumberMinus040 == [neg |-> TRUE, mant |-> 4, exp |-> 1]

TextMay == <<77, 97, 121>>

\* C3: with the three well-formed lines as the rain report, tab 4 does not
\* raise and the metric set is exactly correlation 0.041, elasticity -0.40,
\* wettest_month "May".
C3_EndToEnd ==
    (Ran("tab4") /\ fs[rain_report_path] = File(EndToEndReport)) =>
        /\ pc # "crashed"
        /\ DOMAIN rain_metrics = {"correlation", "elasticity", "wettest_month"}
        /\ rain_metrics["correlation"] = Number0041
        /\ rain_metrics["elasticity"] = NumberMinus040
        /\ rain_metrics["wettest_month"] = TextMay

C3_Witness == pc = "done" /\ fs[rain_report_path] = File(EndToEndReport)

\* C4 as stated: a report with a line "Correlation coefficient: 0.041"
\* anywhere gives correlation 0.041, whatever stands before or after it.
C4_AnyLineGives0041 ==
    (Passed("tab4") /\ \E i \in 1..Len(RainText) : HasLineAt(RainText, i, CorrelationLine))
        => /\ "correlation" \in DOMAIN rain_metrics
           /\ rain_metrics["correlation"] = Number0041

\* C4 as amended: when the leftmost place of the text where the label is
\* followed by a digit, "." or "-" is a line "Correlation coefficient: 0.041",
\* the metric set holds correlation 0.041 once tab 4 has run.
C4_LeftmostLineGives0041 ==
    (Ran("tab4") /\ \E i \in 1..Len(RainText) :
                        /\ HasLineAt(RainText, i, CorrelationLine)
                        /\ \A j \in 1..(i - 1) :
                               ~LabelledNumberAt(RainText, j, LabelCorrelation))
        => /\ "correlation" \in DOMAIN rain_metrics
           /\ rain_metrics["correlation"] = Number0041

\* The 0.041 line comes first and another correlation line follows it.
C4_Witness ==
    /\ Ran("tab4")
    /\ HasLineAt(RainText, 1, CorrelationLine)
    /\ \E j \in 2..Len(RainText) :
           /\ LabelledNumberAt(RainText, j, LabelCorrelation)
           /\ ~HasLineAt(RainText, j, CorrelationLine)

\* C5: after tab 4 a key is in the metric set only if its pattern matched,
\* its value is no placeholder, and tab 4 displays the extracted value of
\* each key present and the default (0.041, -0.40, "May 2025") of each absent.
C5_KeysAndDefaults ==
    (Ran("tab4") /\ fs[rain_report_path].kind # "denied") =>
        /\ ("correlation" \in DOMAIN rain_metrics)
               => re_search(CorrPattern, RainText).matched
        /\ ("elasticity" \in DOMAIN rain_metrics)
               => re_search(ElasticPattern, RainText).matched
        /\ ("wettest_month" \in DOMAIN rain_metrics)
               => re_search(MonthPattern, RainText).matched
        /\ shown.correlation =
               IF "correlation" \in DOMAIN rain_metrics
               THEN FormatFixed(rain_metrics["correlation"], 3)
               ELSE <<48, 46, 48, 52, 49>>
        /\ shown.elasticity =
               IF "elasticity" \in DOMAIN rain_metrics
               THEN FormatFixed(rain_metrics["elasticity"], 2) \o <<37>>
               ELSE <<45, 48, 46, 52, 48, 37>>
        /\ shown.wettest_month =
               IF "wettest_month" \in DOMAIN rain_metrics
               THEN rain_metrics["wettest_month"]
               ELSE <<77, 97, 121, 32, 50, 48, 50, 53>>

\* The tab whose code calls display_plot for the image.
ImageSection(p) ==
    CASE p \in {"border_effect_yellow_taxis_fixed.png",
                "border_effect_green_taxis_fixed.png"} -> "tab1"
      [] p \in {"tip_crowding_monthly_charts.png",
                "tip_crowding_correlation_plots.png"} -> "tab3"
      [] p = "rain_tax_analysis_real_api.png" -> "tab4"
      [] OTHER -> "tab2"

\* display_plot has been called for the image in this pass: its tab ran, and
\* in tab 2 the summary was read before without an exception.
PlotCalled(p) ==
    Ran(ImageSection(p)) /\ ~(ImageSection(p) = "tab2" /\ crashedIn = "tab2")

\* The notices of this pass about a path, in order.
NoticesAbout(p) == SelectSeq(notices, LAMBDA n : n.about = p)

WarningsAbout(p) == SelectSeq(NoticesAbout(p), LAMBDA n : n.level = "warning")

\* C6: for an image path that does not exist display_plot returns False,
\* emits exactly one warning and does not raise.
C6_MissingImageNotFound ==
    \A p \in Images :
        (PlotCalled(p) /\ ~Exists(fs, p)) =>
            /\ plots[p] = "False"
            /\ Len(WarningsAbout(p)) = 1

C6_Witness ==
    /\ pc = "done"
    /\ \E p \in Images : ~Exists(fs, p) /\ plots[p] = "False"

\* C7: a report read decodes as UTF-8, retries once as latin-1 when that
\* fails, gives "" and a warning when the retry fails too, and no failure of
\* a read leaves it as an exception.
C7_DecodeProtocol ==
    readResult.called =>
        LET f == fs[readResult.path]
            u == Utf8Decode(f.data)
            opens == Len(SelectSeq(readResult.log, LAMBDA c : c.op = "open"))
        IN  /\ readResult.exc = "none"
            /\ (f.kind = "file" /\ u.ok) => opens = 1
            /\ (f.kind = "file" /\ ~u.ok) => opens = 2
            /\ (f.kind # "file") =>
                   /\ readResult.text = <<>>
                   /\ readResult.notices # <<>>

\* The bytes with every "\r\n" and every other "\r" replaced by "\n".
RECURSIVE CrToLf(_)
CrToLf(b) ==
    IF b = <<>> THEN <<>>
    ELSE IF Head(b) # 13 THEN <<Head(b)>> \o CrToLf(Tail(b))
    ELSE IF Len(b) > 1 /\ b[2] = 10 THEN <<10>> \o CrToLf(Tail(Tail(b)))
    ELSE <<10>> \o CrToLf(Tail(b))

\* C8 as stated: what safe_read_text returns for a file that is UTF-8
\* encodes back to the bytes of the file, what it returns for a file that is
\* no UTF-8 gives back every byte under latin-1, and it does not raise.
C8_RoundTripExact ==
    (readResult.called /\ fs[readResult.path].kind = "file") =>
        LET data == fs[readResult.path].data
        IN  /\ readResult.exc = "none"
            /\ Utf8Decode(data).ok => Utf8Encode(readResult.text) = data
            /\ ~Utf8Decode(data).ok => Latin1Encode(readResult.text) = data

\* C8 as amended: the text encodes back to the bytes of the file with every
\* "\r\n" and every other "\r" replaced by "\n" (so to the very bytes of a
\* file that holds no "\r"), under UTF-8 when the file is UTF-8 and under
\* latin-1 when it is not, and safe_read_text does not raise.
C8_RoundTripUpToNewlines ==
    (readResult.called /\ fs[readResult.path].kind = "file") =>
        LET data == fs[readResult.path].data
        IN  /\ readResult.exc = "none"
            /\ readResult.notices = <<>>
            /\ Utf8Decode(data).ok => Utf8Encode(readResult.text) = CrToLf(data)
            /\ ~Utf8Decode(data).ok => Latin1Encode(readResult.text) = CrToLf(data)

\* A UTF-8 file with a non-ASCII character and a "\r" has been read.
C8_Witness ==
    /\ readResult.called
    /\ fs[readResult.path].kind = "file"
    /\ LET data == fs[readResult.path].data
       IN  /\ Utf8Decode(data).ok
           /\ \E k \in 1..Len(data) : data[k] = 13
           /\ \E k \in 1..Len(data) : data[k] >= 128

\* Every open of the log comes after an exists of the same path.
ExistsBeforeEveryOpen ==
    \A k \in 1..Len(fslog) :
        fslog[k].op = "open" =>
            \E j \in 1..(k - 1) : fslog[j] = ExistsCall(fslog[k].path)

\* C9 as stated: every read comes after a check that the path exists, and a
\* path that does not exist gets a warning, no error-level notice, and a
\* placeholder or empty content.
C9_WarningNeverError ==
    /\ ExistsBeforeEveryOpen
    /\ \A p \in Images :
           (PlotCalled(p) /\ ~Exists(fs, p)) =>
               /\ plots[p] = "False"
               /\ \E k \in 1..Len(notices) : notices[k] = Warning("Image not found", p)
               /\ \A k \in 1..Len(notices) :
                      notices[k].about = p => notices[k].level # "error"
    /\ \A p \in Reports :
           (Passed("sidebar") /\ ~Exists(fs, p)) =>
               /\ texts[p] = <<>>
               /\ \E k \in 1..Len(notices) : notices[k] = Warning("Report not found", p)
               /\ \A k \in 1..Len(notices) :
                      notices[k].about = p => notices[k].level # "error"

\* C9 as amended: every read of a pass comes after a check that the path
\* exists and a missing path is never opened; a missing image gets one
\* warning from load_image and then the error-level "Could not load" of
\* display_plot, which returns False; a missing report gets one warning from
\* the sidebar, no download button, and "" in its tab without a notice more.
C9_ExistsCheckedBeforeRead ==
    /\ ExistsBeforeEveryOpen
    /\ \A k \in 1..Len(fslog) : fslog[k].op = "open" => Exists(fs, fslog[k].path)
    /\ \A p \in Images :
           (PlotCalled(p) /\ ~Exists(fs, p)) =>
               /\ plots[p] = "False"
               /\ NoticesAbout(p) = <<Warning("Image not found", p),
                                      Error("Could not load", p)>>
    /\ \A p \in Reports :
           (Passed("sidebar") /\ ~Exists(fs, p)) =>
               /\ texts[p] = <<>>
               /\ ~offered[p].on
               /\ NoticesAbout(p) = <<Warning("Report not found", p)>>

\* A pass ended on a directory with a missing image, after reading files.
C9_Witness ==
    /\ pc = "done"
    /\ \E k \in 1..Len(fslog) : fslog[k].op = "open"
    /\ \E p \in Images :
           /\ ~Exists(fs, p)
           /\ \E k \in 1..Len(notices) : notices[k] = Error("Could not load", p)

\* C10: no step of the system (a section of a pass, a refresh, a reload, a
\* download) changes the directory: no file appears, goes or changes content.
C10_ArtifactsReadOnly == [][fs' = fs]_vars

\* A report was downloaded and a further pass has run to its end.
C10_Witness ==
    /\ pc = "done"
    /\ downloaded.on
    /\ downloaded.data # <<>>
    /\ \E k \in 1..Len(fslog) : fslog[k].op = "open"

\* The positions of the text where the label stands.
LabelPositions(text, label) == { i \in 1..Len(text) : StartsWith(text, i, label) }

\* Positions i and j of the text lie on one line: no "\n" from the first of
\* them up to, and without, the second.
SameLine(text, i, j) ==
    \A n \in Min({i, j})..(Max({i, j}) - 1) : text[n] # 10

\* The text without the lines that do not carry the label: what the report
\* would be if the lines of the other metrics, and all other lines, were not
\* written.
LinesOf(text, label) ==
    LET at   == LabelPositions(text, label)
        keep == [i \in 1..Len(text) |->
                    IF \E j \in at : SameLine(text, i, j) THEN text[i] ELSE -1]
    IN  SelectSeq(keep, IsChar)

\* The metric is extracted from the text as from its own lines alone: it is
\* absent when no line of its own matches, and has the value of the leftmost
\* match of its own lines when float() accepts that one.
ExtractedFromOwnLines(key, pat, text, numeric) ==
    LET own == re_search(pat, LinesOf(text, pat.lit))
    IN  IF ~own.matched THEN key \notin DOMAIN rain_metrics
        ELSE IF ~numeric THEN Get(rain_metrics, key, <<>>) = own.group
        ELSE FloatAccepts(own.group) =>
                 /\ key \in DOMAIN rain_metrics
                 /\ rain_metrics[key] = FloatValue(own.group)

\* C11: the three patterns are searched independently: what tab 4 extracts
\* for a metric is what the lines of that metric alone give, whether or not,
\* and wherever, lines of the other two metrics stand in the report.
C11_IndependentSearches ==
    (Ran("tab4") /\ fs[rain_report_path].kind = "file") =>
        /\ ExtractedFromOwnLines("correlation", CorrPattern, RainText, TRUE)
        /\ ExtractedFromOwnLines("elasticity", ElasticPattern, RainText, TRUE)
        /\ ExtractedFromOwnLines("wettest_month", MonthPattern, RainText, FALSE)

\* A section after tab 1 is running or about to run: the directory is the one
\* the pass began on, and is until the pass ends.
MidPass == pc \in {"tab2", "tab3", "tab4", "footer"}

\* C12: the existence of an image is checked on every pass: a pass shows an
\* image exactly when the file exists during that pass, whatever an earlier
\* pass loaded or failed to load for the same path.
C12_ShownIffExists ==
    \A p \in Images :
        (MidPass /\ PlotCalled(p)) => ((plots[p] = "True") = Exists(fs, p))

====
